---------------------------- MODULE Spec2Model ----------------------------
(***************************************************************************)
(* Model of the streaming analysis engine of the wasm crate                *)
(* (src/wasm/src/streaming.rs): StreamingAnalyzer with process_chunk,      *)
(* finalize, get_stats and update_config.                                  *)
(*                                                                         *)
(* Text is a sequence of characters; a character is a one-element string.  *)
(* Offsets are BYTE offsets as in Rust's str: every character of the       *)
(* alphabet is one byte wide except the two-byte letters of TwoByte.       *)
(* Fractions are fixed point: thresholds, entropy and scores are in        *)
(* thousandths.                                                            *)
(***************************************************************************)
EXTENDS Integers, Sequences, FiniteSets, TLC

VARIABLES
    config,                 \* StreamingAnalyzer.config
    word_counts,            \* StreamingAnalyzer.word_counts (word -> count)
    word_iter,              \* iteration order of the word_counts HashMap
    total_chunks,           \* StreamingAnalyzer.total_chunks
    total_content,          \* StreamingAnalyzer.total_content
    banned_phrase_matches,  \* StreamingAnalyzer.banned_phrase_matches
    pii_patterns,           \* StreamingAnalyzer.pii_patterns
    status,                 \* "running", or how the last call failed to return
    remaining,              \* pieces of the stream the host has not delivered yet
    calls,                  \* log of the process_chunk calls made so far
    reconfigured,           \* whether update_config has been called
    last_finalize,          \* what finalize last returned, if nothing changed since
    ret,                    \* what the last call returned
    peer,                   \* a second StreamingAnalyzer, with the same fields
    request,                \* the text given to the one-shot analysis functions
    file_stream,            \* a FileStream: chunk_size, buffer, position
    stream_io               \* the bytes a FileStream was given and the chunks it returned

vars == <<config, word_counts, word_iter, total_chunks, total_content,
          banned_phrase_matches, pii_patterns, status, remaining, calls,
          reconfigured, last_finalize, ret, peer, request, file_stream, stream_io>>

analyzer == <<config, word_counts, word_iter, total_chunks, total_content,
              banned_phrase_matches, pii_patterns>>

\* what the methods of one StreamingAnalyzer cannot reach
outside == <<peer, request, file_stream, stream_io>>

\* the value of a variable whose object does not exist in a specification
Absent == [ absent |-> TRUE ]

\* no second analyzer, no one-shot call, no FileStream
NothingOutside ==
    /\ peer = Absent
    /\ request = Absent
    /\ file_stream = Absent
    /\ stream_io = Absent

---------------------------------------------------------------------------
(* Bounds of the exploration.                                              *)

MaxChunks == 2      \* process_chunk calls per run
MaxStreamLen == 3   \* characters of a generated stream
MaxResultStreamLen == 2   \* characters of a generated stream of ResultSpec

---------------------------------------------------------------------------
(* Characters.                                                             *)

LowerLetters ==
    {"a", "b", "c", "d", "e", "f", "g", "h", "i", "j", "k", "l", "m", "n", "o",
     "p", "q", "r", "s", "t", "u", "v", "w", "x", "y", "z"}
UpperLetters == {"S", "T"}
TwoByte == {"e_acute", "E_ACUTE"}        \* U+00E9 and U+00C9, two bytes in UTF-8
Digits == {"0", "1", "2", "3", "4", "5", "6", "7", "8", "9"}
Whitespace == {" "}

\* char::is_alphanumeric
is_alphanumeric(c) == c \in LowerLetters \cup UpperLetters \cup TwoByte \cup Digits

\* char::is_whitespace, as split_whitespace uses it
is_whitespace(c) == c \in Whitespace

\* char::to_lowercase
to_lowercase_char(c) ==
    CASE c = "S" -> "s"
      [] c = "T" -> "t"
      [] c = "E_ACUTE" -> "e_acute"
      [] OTHER -> c

\* str::to_lowercase
to_lowercase(text) == [i \in 1..Len(text) |-> to_lowercase_char(text[i])]

\* char::len_utf8
len_utf8(c) == IF c \in TwoByte THEN 2 ELSE 1

RECURSIVE byte_len(_)
\* str::len: the length in bytes
byte_len(text) ==
    IF text = <<>> THEN 0 ELSE len_utf8(Head(text)) + byte_len(Tail(text))

\* byte offset of the character with 0-based index i (i = Len(text): the end)
byte_offset(text, i) == byte_len(SubSeq(text, 1, i))

\* str::is_char_boundary
is_char_boundary(text, b) == \E i \in 0..Len(text) : byte_offset(text, i) = b

\* &text[from..to] for byte offsets on character boundaries
slice(text, from, to) ==
    LET i == CHOOSE i \in 0..Len(text) : byte_offset(text, i) = from
        j == CHOOSE j \in 0..Len(text) : byte_offset(text, j) = to
    IN  SubSeq(text, i + 1, j)

Min(S) == CHOOSE x \in S : \A y \in S : x <= y

RECURSIVE Concat(_)
Concat(pieces) ==
    IF pieces = <<>> THEN <<>> ELSE Head(pieces) \o Concat(Tail(pieces))

---------------------------------------------------------------------------
(* Configurations.                                                         *)

default_stopwords == {
    <<"t", "h", "e">>, <<"a">>, <<"a", "n">>, <<"a", "n", "d">>, <<"o", "r">>,
    <<"b", "u", "t">>, <<"i", "n">>, <<"o", "n">>, <<"a", "t">>, <<"t", "o">>,
    <<"f", "o", "r">>, <<"o", "f">>, <<"w", "i", "t", "h">>, <<"b", "y">>, <<"i", "s">>,
    <<"a", "r", "e">>, <<"w", "a", "s">>, <<"w", "e", "r", "e">>, <<"b", "e">>,
    <<"b", "e", "e", "n">>, <<"h", "a", "v", "e">>, <<"h", "a", "s">>, <<"h", "a", "d">>,
    <<"d", "o">>, <<"d", "o", "e", "s">>, <<"d", "i", "d">>, <<"w", "i", "l", "l">>,
    <<"w", "o", "u", "l", "d">>, <<"c", "o", "u", "l", "d">>,
    <<"s", "h", "o", "u", "l", "d">>, <<"m", "a", "y">>, <<"m", "i", "g", "h", "t">>,
    <<"c", "a", "n">>, <<"t", "h", "i", "s">>, <<"t", "h", "a", "t">>,
    <<"t", "h", "e", "s", "e">>, <<"t", "h", "o", "s", "e">>, <<"i">>, <<"y", "o", "u">>,
    <<"h", "e">>, <<"s", "h", "e">>, <<"i", "t">>, <<"w", "e">>, <<"t", "h", "e", "y">>,
    <<"m", "e">>, <<"h", "i", "m">>, <<"h", "e", "r">>, <<"u", "s">>, <<"t", "h", "e", "m">>,
    <<"m", "y">>, <<"y", "o", "u", "r">>, <<"h", "i", "s">>,
    <<"i", "t", "s">>, <<"o", "u", "r">>, <<"t", "h", "e", "i", "r">>, <<"m", "i", "n", "e">>,
    <<"y", "o", "u", "r", "s">>, <<"h", "e", "r", "s">>, <<"o", "u", "r", "s">>,
    <<"t", "h", "e", "i", "r", "s">> }

\* StreamingConfig::default()
DefaultConfig ==
    [ stopwords |-> default_stopwords,
      entropy_threshold |-> 4800,
      risk_threshold |-> 600,
      max_words |-> 10,
      banned_phrases |-> << <<"c", "o", "n", "f", "i", "d", "e", "n", "t", "i", "a", "l">>,
                            <<"d", "o", " ", "n", "o", "t", " ", "s", "h", "a", "r", "e">> >> ]

\* the configuration of test_custom_config
CustomConfig ==
    [ stopwords |-> { <<"c", "u", "s", "t", "o", "m">> },
      entropy_threshold |-> 3000,
      risk_threshold |-> 300,
      max_words |-> 5,
      banned_phrases |-> << <<"s", "e", "c", "r", "e", "t">> >> ]

\* a configuration over the letters of the generated streams
ShortConfig ==
    [ stopwords |-> { <<"b">> },
      entropy_threshold |-> 4800,
      risk_threshold |-> 600,
      max_words |-> 1,
      banned_phrases |-> << <<"a", "b">> >> ]

\* a configuration whose phrase list holds the empty string
EmptyPhraseConfig ==
    [ stopwords |-> { <<"b">> },
      entropy_threshold |-> 4800,
      risk_threshold |-> 600,
      max_words |-> 1,
      banned_phrases |-> << <<>> >> ]

Configs == {DefaultConfig, CustomConfig, ShortConfig, EmptyPhraseConfig}

---------------------------------------------------------------------------
(* Streams the host delivers.  A stream is a sequence of pieces; a chunk   *)
(* is the concatenation of any number of the next pieces.                  *)

GenAlphabet == {"a", "b", " "}

GenStreams ==
    UNION { [1..n -> { <<c>> : c \in GenAlphabet }] : n \in 0..MaxStreamLen }

SampleStreams == {
    \* "this is " "confi" "dential"
    << <<"t", "h", "i", "s", " ", "i", "s", " ">>, <<"c", "o", "n", "f", "i">>,
       <<"d", "e", "n", "t", "i", "a", "l">> >>,
    \* "12345" "6789" "0123"
    << <<"1", "2", "3", "4", "5">>, <<"6", "7", "8", "9">>, <<"0", "1", "2", "3">> >>,
    \* ten two-byte letters and a space, then "ab"
    << <<"e_acute", "e_acute", "e_acute", "e_acute", "e_acute", "e_acute", "e_acute",
         "e_acute", "e_acute", "e_acute", " ">>, <<"a", "b">> >> }

Streams == GenStreams \cup SampleStreams

---------------------------------------------------------------------------
(* Word frequency.                                                         *)

RECURSIVE split_words(_, _, _)
\* split_whitespace, then keep the alphanumeric characters of each word and
\* drop the words left empty; cur is the word being collected
split_words(text, cur, acc) ==
    IF text = <<>>
    THEN IF cur = <<>> THEN acc ELSE Append(acc, cur)
    ELSE IF is_whitespace(Head(text))
         THEN split_words(Tail(text), <<>>, IF cur = <<>> THEN acc ELSE Append(acc, cur))
         ELSE IF is_alphanumeric(Head(text))
              THEN split_words(Tail(text), Append(cur, Head(text)), acc)
              ELSE split_words(Tail(text), cur, acc)

\* StreamingAnalyzer::tokenize_text
tokenize_text(text) == split_words(to_lowercase(text), <<>>, <<>>)

EmptyMap == [w \in {} |-> 0]

\* *map.entry(word).or_insert(0) += 1
increment(map, word) ==
    [w \in DOMAIN map \cup {word} |->
        IF w = word THEN (IF word \in DOMAIN map THEN map[word] + 1 ELSE 1)
        ELSE map[w]]

RECURSIVE count_words(_, _, _)
\* the word-frequency loop of process_chunk: stopwords are not counted
count_words(map, stopwords, words) ==
    IF words = <<>> THEN map
    ELSE count_words(IF Head(words) \in stopwords THEN map
                     ELSE increment(map, Head(words)),
                     stopwords, Tail(words))

\* the orders in which a HashMap with these keys may iterate
IterationOrders(keys) ==
    { s \in [1..Cardinality(keys) -> keys] :
        \A i, j \in 1..Cardinality(keys) : i # j => s[i] # s[j] }

---------------------------------------------------------------------------
(* Banned phrases.                                                         *)

ContextWidth == 20

Max(a, b) == IF a >= b THEN a ELSE b
Least(a, b) == IF a <= b THEN a ELSE b

RECURSIVE scan_phrase(_, _, _, _)
\* the while-let loop of detect_banned_phrases_in_chunk for one phrase;
\* start is the character index the search resumes at
scan_phrase(chunk, phrase, start, acc) ==
    LET chunk_lower == to_lowercase(chunk)
        hits == { i \in start..(Len(chunk_lower) - Len(phrase)) :
                    SubSeq(chunk_lower, i + 1, i + Len(phrase)) = phrase }
    IN  IF hits = {} THEN [outcome |-> "Ok", matches |-> acc]
        ELSE
          LET i == Min(hits)
              actual_pos == byte_offset(chunk_lower, i)
              context_start == Max(actual_pos - ContextWidth, 0)
              context_end == Least(actual_pos + byte_len(phrase) + ContextWidth,
                                   byte_len(chunk))
          IN  IF \/ ~is_char_boundary(chunk, context_start)
                 \/ ~is_char_boundary(chunk, context_end)
                 \/ context_start > context_end
              THEN [outcome |-> "panic", matches |-> acc]
              ELSE IF i + Len(phrase) = start
                   \* the search restarts where it started: the loop never ends
                   THEN [outcome |-> "hang", matches |-> acc]
                   ELSE scan_phrase(chunk, phrase, i + Len(phrase),
                          Append(acc, [ phrase |-> phrase,
                                        position |-> actual_pos,
                                        context |-> slice(chunk, context_start, context_end),
                                        severity |-> "high" ]))

RECURSIVE scan_phrases(_, _, _)
scan_phrases(chunk, phrases, acc) ==
    IF phrases = <<>> THEN [outcome |-> "Ok", matches |-> acc]
    ELSE LET r == scan_phrase(chunk, Head(phrases), 0, acc)
         IN  IF r.outcome = "Ok" THEN scan_phrases(chunk, Tail(phrases), r.matches)
             ELSE r

\* StreamingAnalyzer::detect_banned_phrases_in_chunk
detect_banned_phrases_in_chunk(cfg, chunk) ==
    scan_phrases(chunk, cfg.banned_phrases, <<>>)

---------------------------------------------------------------------------
(* PII patterns.                                                           *)

PiiMinDigits == 9
PiiMaxDigits == 12
PiiConfidence == 800

\* \w of the regex
is_word_char(c) == is_alphanumeric(c) \/ c = "_"

\* \b at character index i (between text[i] and text[i+1])
word_boundary(text, i) ==
    LET before == i >= 1 /\ is_word_char(text[i])
        after == i < Len(text) /\ is_word_char(text[i + 1])
    IN  before # after

\* a match of \b\d{9,12}\b starting at character index i: its length, or 0
pii_match_len(text, i) ==
    LET lens == { n \in PiiMinDigits..PiiMaxDigits :
                    /\ i + n <= Len(text)
                    /\ \A k \in (i + 1)..(i + n) : text[k] \in Digits
                    /\ word_boundary(text, i)
                    /\ word_boundary(text, i + n) }
    IN  IF lens = {} THEN 0 ELSE CHOOSE n \in lens : \A m \in lens : m <= n

RECURSIVE find_iter(_, _, _)
\* PII_REGEX.find_iter: leftmost matches, not overlapping
find_iter(text, i, acc) ==
    IF i >= Len(text) THEN acc
    ELSE LET n == pii_match_len(text, i)
         IN  IF n = 0 THEN find_iter(text, i + 1, acc)
             ELSE find_iter(text, i + n,
                    Append(acc, [ type_ |-> "numeric",
                                  pattern |-> SubSeq(text, i + 1, i + n),
                                  position |-> byte_offset(text, i),
                                  confidence |-> PiiConfidence ]))

\* StreamingAnalyzer::detect_pii_patterns_in_chunk
detect_pii_patterns_in_chunk(chunk) == find_iter(chunk, 0, <<>>)

---------------------------------------------------------------------------
(* Entropy, risk score and reason, as finalize computes them.              *)

\* f64::log2 of 1..48, in thousandths
Log2Table ==
    << 0, 1000, 1585, 2000, 2322, 2585, 2807, 3000, 3170, 3322, 3459, 3585,
       3700, 3807, 3907, 4000, 4087, 4170, 4248, 4322, 4392, 4459, 4524, 4585,
       4644, 4700, 4755, 4807, 4858, 4907, 4954, 5000, 5044, 5087, 5129, 5170,
       5209, 5248, 5285, 5322, 5358, 5392, 5426, 5459, 5492, 5524, 5555, 5585 >>

log2(n) == Log2Table[n]

\* the normalized text of calculate_entropy: lower-cased, alphanumeric only
normalize(text) == SelectSeq(to_lowercase(text), is_alphanumeric)

\* char_counts of calculate_entropy
char_counts(normalized) ==
    [ c \in { normalized[i] : i \in 1..Len(normalized) } |->
        Cardinality({ i \in 1..Len(normalized) : normalized[i] = c }) ]

RECURSIVE entropy_sum(_, _, _)
\* sum over the characters in cs of count * (log2 total - log2 count)
entropy_sum(counts, cs, total) ==
    IF cs = {} THEN 0
    ELSE LET c == CHOOSE c \in cs : TRUE
         IN  counts[c] * (log2(total) - log2(counts[c]))
               + entropy_sum(counts, cs \ {c}, total)

\* StreamingAnalyzer::calculate_entropy, in thousandths of a bit
calculate_entropy(text) ==
    LET normalized == normalize(text)
        counts == char_counts(normalized)
        total_chars == byte_len(normalized)
    IN  IF normalized = <<>> THEN 0
        ELSE entropy_sum(counts, DOMAIN counts, total_chars) \div total_chars

banned_weight == 400
pii_weight == 300
entropy_weight == 200

\* an f64 of the scorer: a number of thousandths, or NaN
Finite(x) == [ nan |-> FALSE, milli |-> x ]
NaN == [ nan |-> TRUE, milli |-> 0 ]

\* f64 >= : every comparison with NaN is false
f64_ge(x, threshold) == ~x.nan /\ x.milli >= threshold

\* a faulty entropy term: the threshold is taken as the scale whatever the entropy
entropy_score_unclamped(cfg, entropy) ==
    IF cfg.entropy_threshold = 0 THEN NaN
    ELSE Finite((entropy * 1000) \div cfg.entropy_threshold)

\* if entropy > threshold { 1.0 } else { entropy / threshold }.  The entropy is
\* never negative, so the division is reached with a zero threshold only when
\* the entropy is zero too: 0.0 / 0.0
entropy_score(cfg, entropy) ==
    IF entropy > cfg.entropy_threshold THEN Finite(1000)
    ELSE IF cfg.entropy_threshold = 0 THEN NaN
    ELSE Finite((entropy * 1000) \div cfg.entropy_threshold)

\* a faulty scorer: the entropy term is left out
calculate_risk_score_no_entropy(cfg, banned_phrases, pii, entropy) ==
    Finite((IF banned_phrases = <<>> THEN 0 ELSE banned_weight)
             + (IF pii = <<>> THEN 0 ELSE pii_weight))

\* StreamingAnalyzer::calculate_risk_score, in thousandths
calculate_risk_score(cfg, banned_phrases, pii, entropy) ==
    LET banned_score == IF banned_phrases = <<>> THEN 0 ELSE 1
        pii_score == IF pii = <<>> THEN 0 ELSE 1
        e_score == entropy_score(cfg, entropy)
    IN  IF e_score.nan THEN NaN
        ELSE Finite(banned_score * banned_weight + pii_score * pii_weight
                      + (e_score.milli * entropy_weight) \div 1000)

RECURSIVE join(_, _)
\* [String]::join
join(parts, sep) ==
    IF Len(parts) <= 1 THEN parts
    ELSE <<Head(parts), sep>> \o join(Tail(parts), sep)

\* a faulty reason: the PII clause is put before the phrase clause
generate_reason_pii_first(cfg, banned_phrases, pii, entropy) ==
    LET r1 == IF banned_phrases # <<>>
              THEN << <<"Found {} banned phrase(s)", Len(banned_phrases)>> >> ELSE <<>>
        r2 == IF pii # <<>>
              THEN << <<"Detected {} PII pattern(s)", Len(pii)>> >> ELSE <<>>
        r3 == IF entropy > cfg.entropy_threshold
              THEN << <<"High entropy content detected (possible obfuscation)", 0>> >>
              ELSE <<>>
        reasons == r2 \o r1 \o r3
    IN  IF reasons = <<>> THEN << <<"No security concerns detected", 0>> >>
        ELSE join(reasons, <<"; ", 0>>)

\* StreamingAnalyzer::generate_reason; a clause is its format string and count
generate_reason(cfg, banned_phrases, pii, entropy) ==
    LET r1 == IF banned_phrases # <<>>
              THEN << <<"Found {} banned phrase(s)", Len(banned_phrases)>> >> ELSE <<>>
        r2 == IF pii # <<>>
              THEN << <<"Detected {} PII pattern(s)", Len(pii)>> >> ELSE <<>>
        r3 == IF entropy > cfg.entropy_threshold
              THEN << <<"High entropy content detected (possible obfuscation)", 0>> >>
              ELSE <<>>
        reasons == r1 \o r2 \o r3
    IN  IF reasons = <<>> THEN << <<"No security concerns detected", 0>> >>
        ELSE join(reasons, <<"; ", 0>>)

RECURSIVE sort_by_count(_)
\* sort_by(|a, b| b.1.cmp(&a.1)): stable, by count descending
sort_by_count(pairs) ==
    IF pairs = <<>> THEN <<>>
    ELSE LET rest == sort_by_count(Tail(pairs))
             h == Head(pairs)
             \* h goes before the first element of rest whose count is not greater
             k == Cardinality({ i \in 1..Len(rest) : rest[i][2] > h[2] })
         IN  SubSeq(rest, 1, k) \o <<h>> \o SubSeq(rest, k + 1, Len(rest))

\* the top_words of finalize
top_words(cfg, counts, order) ==
    LET kept == SelectSeq(order, LAMBDA w : w \notin cfg.stopwords)
        pairs == [ i \in 1..Len(kept) |-> <<kept[i], counts[kept[i]]>> ]
        sorted_words == sort_by_count(pairs)
    IN  SubSeq(sorted_words, 1, Least(cfg.max_words, Len(sorted_words)))

\* a faulty emptiness test: only the number of calls is looked at
is_empty_no_chunks(content) == total_chunks = 0

\* String::is_empty
is_empty(content) == content = <<>>

\* what StreamingAnalyzer::finalize returns for an analyzer with these fields
finalize_of(cfg, counts, order, content, banned_phrases, pii) ==
    IF is_empty(content)
    THEN [ op |-> "finalize", outcome |-> "Err", error |-> "No content processed" ]
    ELSE LET entropy == calculate_entropy(content)
             risk_score == calculate_risk_score(cfg, banned_phrases, pii, entropy)
         IN  [ op |-> "finalize", outcome |-> "Ok",
               result |->
                 [ top_words |-> top_words(cfg, counts, order),
                   banned_phrases |-> banned_phrases,
                   pii_patterns |-> pii,
                   entropy |-> entropy,
                   is_obfuscated |-> entropy > cfg.entropy_threshold,
                   decision |-> IF f64_ge(risk_score, cfg.risk_threshold)
                                THEN "block" ELSE "allow",
                   reason |-> generate_reason(cfg, banned_phrases, pii, entropy),
                   risk_score |-> risk_score ] ]

\* finalize on the analyzer as it is now
finalize_result ==
    finalize_of(config, word_counts, word_iter, total_content,
                banned_phrase_matches, pii_patterns)

\* a faulty report: the content is measured in characters, not in bytes
stats_result_chars ==
    [ op |-> "get_stats", outcome |-> "Ok",
      stats |-> [ total_chunks |-> total_chunks,
                  total_content_length |-> Len(total_content),
                  unique_words |-> Cardinality(DOMAIN word_counts),
                  banned_phrase_count |-> Len(banned_phrase_matches),
                  pii_pattern_count |-> Len(pii_patterns) ] ]

\* what StreamingAnalyzer::get_stats returns
stats_result ==
    [ op |-> "get_stats", outcome |-> "Ok",
      stats |-> [ total_chunks |-> total_chunks,
                  total_content_length |-> byte_len(total_content),
                  unique_words |-> Cardinality(DOMAIN word_counts),
                  banned_phrase_count |-> Len(banned_phrase_matches),
                  pii_pattern_count |-> Len(pii_patterns) ] ]

---------------------------------------------------------------------------
(* The analyzer.                                                           *)

NoReturn == [ op |-> "new", outcome |-> "Ok" ]

\* a faulty counter: an empty chunk is not counted
chunk_count_after_skip_empty(count, chunk) ==
    IF chunk = <<>> THEN count ELSE count + 1

\* self.total_chunks += 1
chunk_count_after(count, chunk) == count + 1

\* a faulty accumulation: the chunk replaces the content
push_str_overwrite(content, chunk) == chunk

\* self.total_content.push_str(chunk)
push_str(content, chunk) == content \o chunk

\* StreamingAnalyzer::new
Init ==
    /\ config \in Configs
    /\ word_counts = EmptyMap
    /\ word_iter = <<>>
    /\ total_chunks = 0
    /\ total_content = <<>>
    /\ banned_phrase_matches = <<>>
    /\ pii_patterns = <<>>
    /\ status = "running"
    /\ remaining \in Streams
    /\ calls = <<>>
    /\ reconfigured = FALSE
    /\ last_finalize = NoReturn
    /\ ret = NoReturn
    /\ NothingOutside

\* StreamingAnalyzer::process_chunk on the next n pieces of the stream
process_chunk(n) ==
    LET chunk == Concat(SubSeq(remaining, 1, n))
        counted == count_words(word_counts, config.stopwords, tokenize_text(chunk))
        chunk_matches == detect_banned_phrases_in_chunk(config, chunk)
        chunk_pii == detect_pii_patterns_in_chunk(chunk)
    IN  /\ status = "running"
        /\ total_chunks < MaxChunks
        /\ total_chunks' = chunk_count_after(total_chunks, chunk)
        /\ total_content' = push_str(total_content, chunk)
        /\ word_counts' = counted
        /\ word_iter' \in IF DOMAIN counted = DOMAIN word_counts THEN {word_iter}
                          ELSE IterationOrders(DOMAIN counted)
        /\ IF chunk_matches.outcome = "Ok"
           THEN /\ banned_phrase_matches' = banned_phrase_matches \o chunk_matches.matches
                /\ pii_patterns' = pii_patterns \o chunk_pii
                /\ status' = status
           ELSE \* the call never returns: nothing after the phrase scan runs
                /\ UNCHANGED <<banned_phrase_matches, pii_patterns>>
                /\ status' = chunk_matches.outcome
        /\ ret' = [ op |-> "process_chunk", outcome |-> chunk_matches.outcome ]
        /\ remaining' = SubSeq(remaining, n + 1, Len(remaining))
        /\ calls' = Append(calls, [ chunk |-> chunk,
                                    base |-> byte_len(total_content),
                                    phrases |-> chunk_matches.matches,
                                    pii |-> chunk_pii ])
        /\ last_finalize' = NoReturn
        /\ UNCHANGED <<config, reconfigured>>
        /\ UNCHANGED outside

\* a faulty finalize: it takes the accumulated content away
finalize_consuming ==
    /\ status = "running"
    /\ ret' = finalize_result
    /\ last_finalize' = finalize_result
    /\ total_content' = <<>>
    /\ UNCHANGED <<config, word_counts, word_iter, total_chunks,
                   banned_phrase_matches, pii_patterns,
                   status, remaining, calls, reconfigured>>
    /\ UNCHANGED outside

\* StreamingAnalyzer::finalize
finalize ==
    /\ status = "running"
    /\ ret' = finalize_result
    /\ last_finalize' = finalize_result
    /\ UNCHANGED <<analyzer, status, remaining, calls, reconfigured>>
    /\ UNCHANGED outside

\* StreamingAnalyzer::get_stats
get_stats ==
    /\ status = "running"
    /\ ret' = stats_result
    /\ UNCHANGED <<analyzer, status, remaining, calls, reconfigured, last_finalize>>
    /\ UNCHANGED outside

\* a faulty update: the matches recorded under the old configuration are dropped
update_config_reset(cfg) ==
    /\ status = "running"
    /\ config' = cfg
    /\ reconfigured' = TRUE
    /\ ret' = [ op |-> "update_config", outcome |-> "Ok" ]
    /\ last_finalize' = NoReturn
    /\ banned_phrase_matches' = <<>>
    /\ UNCHANGED <<word_counts, word_iter, total_chunks, total_content,
                   pii_patterns, status, remaining, calls>>
    /\ UNCHANGED outside

\* StreamingAnalyzer::update_config
update_config(cfg) ==
    /\ status = "running"
    /\ config' = cfg
    /\ reconfigured' = TRUE
    /\ ret' = [ op |-> "update_config", outcome |-> "Ok" ]
    /\ last_finalize' = NoReturn
    /\ UNCHANGED <<word_counts, word_iter, total_chunks, total_content,
                   banned_phrase_matches, pii_patterns, status, remaining, calls>>
    /\ UNCHANGED outside

Next ==
    \/ \E n \in 0..Len(remaining) : process_chunk(n)
    \/ finalize
    \/ get_stats
    \/ \E cfg \in Configs : update_config(cfg)

Spec == Init /\ [][Next]_vars

---------------------------------------------------------------------------
(* The analyzer over the configurations and documents that exercise the    *)
(* result of finalize: scoring, reason, ranking, reconfiguration, phrase   *)
(* boundaries and letter case, PII kinds.                                  *)

\* a configuration whose entropy threshold is zero
ZeroThresholdConfig ==
    [ stopwords |-> {},
      entropy_threshold |-> 0,
      risk_threshold |-> 600,
      max_words |-> 10,
      banned_phrases |-> << <<"a", "b">> >> ]

\* the configuration of test_custom_config with its phrase capitalised
UpperPhraseConfig ==
    [ CustomConfig EXCEPT !.banned_phrases = << <<"S", "e", "c", "r", "e", "t">> >> ]

ResultConfigs ==
    {DefaultConfig, CustomConfig, ShortConfig, ZeroThresholdConfig, UpperPhraseConfig}

ThisIsConfidentialDot ==
    <<"T", "h", "i", "s", " ", "i", "s", " ",
      "c", "o", "n", "f", "i", "d", "e", "n", "t", "i", "a", "l", ".">>

ConfidentialWord ==
    <<"c", "o", "n", "f", "i", "d", "e", "n", "t", "i", "a", "l", "w", "o", "r", "d">>

ConfidentialSpace ==
    <<"c", "o", "n", "f", "i", "d", "e", "n", "t", "i", "a", "l", " ">>

NineDigits == <<"1", "2", "3", "4", "5", "6", "7", "8", "9">>

EmailText == <<"a", "@", "b", ".", "c", "o">>

SecretText == <<"S", "e", "c", "r", "e", "t">>

ResultSamples ==
    { <<ThisIsConfidentialDot>>, <<ConfidentialWord>>,
      <<ConfidentialSpace, NineDigits>>, <<EmailText>>, <<SecretText>> }

ResultGenStreams ==
    UNION { [1..n -> { <<c>> : c \in GenAlphabet }] : n \in 0..MaxResultStreamLen }

ResultStreams == ResultGenStreams \cup ResultSamples

\* StreamingAnalyzer::new
ResultInit ==
    /\ config \in ResultConfigs
    /\ word_counts = EmptyMap
    /\ word_iter = <<>>
    /\ total_chunks = 0
    /\ total_content = <<>>
    /\ banned_phrase_matches = <<>>
    /\ pii_patterns = <<>>
    /\ status = "running"
    /\ remaining \in ResultStreams
    /\ calls = <<>>
    /\ reconfigured = FALSE
    /\ ret = NoReturn
    /\ last_finalize = NoReturn
    /\ NothingOutside

ResultNext ==
    \/ \E n \in 0..Len(remaining) : process_chunk(n)
    \/ finalize
    \/ get_stats
    \/ \E cfg \in ResultConfigs : update_config(cfg)

ResultSpec == ResultInit /\ [][ResultNext]_vars

---------------------------------------------------------------------------
(* Properties.                                                             *)

\* the stream delivered so far, from the log of the calls
Delivered == Concat([k \in 1..Len(calls) |-> calls[k].chunk])

\* the byte offsets at which a chunk after the first one started
Seams == { calls[k].base : k \in 2..Len(calls) }

\* the phrase matches of the delivered stream scanned in one piece
UnsplitPhrases == detect_banned_phrases_in_chunk(config, Delivered).matches

\* the PII matches of the delivered stream scanned in one piece
UnsplitPii == detect_pii_patterns_in_chunk(Delivered)

CountIn(seq, x) == Cardinality({ i \in 1..Len(seq) : seq[i] = x })

ThisIsConfidential ==
    <<"t", "h", "i", "s", " ", "i", "s", " ",
      "c", "o", "n", "f", "i", "d", "e", "n", "t", "i", "a", "l">>

Confidential == <<"c", "o", "n", "f", "i", "d", "e", "n", "t", "i", "a", "l">>

\* the process_chunk call this step makes, when it makes one
ChunkOfStep == calls'[Len(calls')].chunk
IsProcessChunkStep == Len(calls') = Len(calls) + 1

\* finalize on the analyzer as it is after this step
FinalizeAfterStep ==
    finalize_of(config', word_counts', word_iter', total_content',
                banned_phrase_matches', pii_patterns')

\* the stream delivered once this step is made
DeliveredAfterStep == Concat([k \in 1..Len(calls') |-> calls'[k].chunk])

\* C1: a banned phrase that straddles a chunk boundary is reported exactly
\* once, at its position in the stream: "this is confi" + "dential" gives one
\* match for "confidential" at position 8.
C1_CrossChunkPhrase ==
    (status = "running" /\ ~reconfigured) =>
        /\ (config = DefaultConfig /\ Delivered = ThisIsConfidential) =>
              [ i \in 1..Len(banned_phrase_matches) |->
                  <<banned_phrase_matches[i].phrase, banned_phrase_matches[i].position>> ]
                = << <<Confidential, 8>> >>
        /\ \A i \in 1..Len(UnsplitPhrases) :
              LET m == UnsplitPhrases[i]
              IN  (\E b \in Seams : m.position < b /\ b < m.position + byte_len(m.phrase))
                  => Cardinality({ j \in 1..Len(banned_phrase_matches) :
                                     /\ banned_phrase_matches[j].phrase = m.phrase
                                     /\ banned_phrase_matches[j].position = m.position }) = 1

shift(matches, base) ==
    [ i \in 1..Len(matches) |-> [matches[i] EXCEPT !.position = @ + base] ]

\* C2: every recorded phrase match and PII match carries the offset of the
\* match in the whole stream: the bytes of the earlier chunks plus the offset
\* inside its chunk.
C2_GlobalOffsets ==
    status = "running" =>
        /\ banned_phrase_matches =
             Concat([k \in 1..Len(calls) |-> shift(calls[k].phrases, calls[k].base)])
        /\ pii_patterns =
             Concat([k \in 1..Len(calls) |-> shift(calls[k].pii, calls[k].base)])

\* C3: the word counts do not depend on where the chunk boundaries fall: they
\* are the counts of the stream fed as one chunk.
C3_WordCountsChunkInvariant ==
    ~reconfigured =>
        word_counts = count_words(EmptyMap, config.stopwords, tokenize_text(Delivered))

C5_PiiChunkInvariant ==
    status = "running" =>
        LET found == [ i \in 1..Len(pii_patterns) |-> pii_patterns[i].pattern ]
            whole == [ i \in 1..Len(UnsplitPii) |-> UnsplitPii[i].pattern ]
        IN  /\ \A i \in 1..Len(found) : CountIn(found, found[i]) = CountIn(whole, found[i])
            /\ \A i \in 1..Len(whole) : CountIn(found, whole[i]) = CountIn(whole, whole[i])

C7_EmptyStreamError ==
    [][ /\ ret'.op = "finalize" =>
             (ret'.outcome = "Err" <=> (Len(calls') = 0 \/ byte_len(DeliveredAfterStep) = 0))
        /\ ( /\ ret.op = "finalize" /\ ret.outcome = "Err"
             /\ IsProcessChunkStep /\ ChunkOfStep # <<>> /\ ret'.outcome = "Ok" )
           => FinalizeAfterStep.outcome = "Ok" ]_vars

C7_Witness ==
    /\ ret.op = "finalize" /\ ret.outcome = "Err"
    /\ Len(calls) >= 1

\* C8: the chunk counter, as the analyzer holds it and as get_stats reports
\* it, is the number of process_chunk calls made so far.
C8_ChunkCounter ==
    /\ total_chunks = Len(calls)
    /\ ret.op = "get_stats" => ret.stats.total_chunks = Len(calls)

C8_Witness ==
    /\ ret.op = "get_stats"
    /\ ret.stats.total_chunks = 2
    /\ calls[1].chunk = <<>>

\* C9: process_chunk with an empty chunk returns Ok and changes nothing but
\* the chunk counter; finalize returns after it what it returned before.
C9_EmptyChunkNoOp ==
    [][ (IsProcessChunkStep /\ ChunkOfStep = <<>>) =>
          /\ ret'.outcome = "Ok"
          /\ total_chunks' = total_chunks + 1
          /\ UNCHANGED <<config, word_counts, word_iter, total_content,
                         banned_phrase_matches, pii_patterns>>
          /\ FinalizeAfterStep = finalize_result ]_vars

\* C10: every process_chunk call returns, and returns Ok.
C10_ProcessChunkReturnsOk ==
    ret.op = "process_chunk" => (ret.outcome = "Ok" /\ status = "running")

---------------------------------------------------------------------------
(* Two analyzers.  The second instance is the record peer, with the fields *)
(* of the struct, the stream its host still has to deliver, the chunks it  *)
(* was given and what its last call returned.                              *)

PairConfigs == {ShortConfig, CustomConfig}

\* the stream of the first instance and the one of the second
PairStream == << <<"a", "b">>, <<"a">> >>
PeerStream == << <<"s", "e", "c", "r", "e", "t">>, <<"a">> >>

\* StreamingAnalyzer::new for the second instance
new_peer(cfg, stream) ==
    [ config |-> cfg,
      word_counts |-> EmptyMap,
      word_iter |-> <<>>,
      total_chunks |-> 0,
      total_content |-> <<>>,
      banned_phrase_matches |-> <<>>,
      pii_patterns |-> <<>>,
      status |-> "running",
      remaining |-> stream,
      calls |-> <<>>,
      ret |-> NoReturn ]

\* the first instance and its host, but for what the last call returned
this_instance_fields ==
    <<analyzer, status, remaining, calls, reconfigured, last_finalize>>

\* everything of the first instance and of its host
this_instance == <<analyzer, status, remaining, calls, reconfigured, last_finalize, ret>>

\* finalize on the second instance as it is in p
peer_finalize_of(p) ==
    finalize_of(p.config, p.word_counts, p.word_iter, p.total_content,
                p.banned_phrase_matches, p.pii_patterns)

\* StreamingAnalyzer::process_chunk on the second instance
peer_process_chunk(n) ==
    LET chunk == Concat(SubSeq(peer.remaining, 1, n))
        counted == count_words(peer.word_counts, peer.config.stopwords,
                               tokenize_text(chunk))
        chunk_matches == detect_banned_phrases_in_chunk(peer.config, chunk)
        chunk_pii == detect_pii_patterns_in_chunk(chunk)
        returned == chunk_matches.outcome = "Ok"
    IN  /\ peer.status = "running"
        /\ peer.total_chunks < MaxChunks
        /\ \E order \in IF DOMAIN counted = DOMAIN peer.word_counts
                         THEN {peer.word_iter}
                         ELSE IterationOrders(DOMAIN counted) :
              peer' = [ peer EXCEPT
                          !.total_chunks = chunk_count_after(@, chunk),
                          !.total_content = push_str(@, chunk),
                          !.word_counts = counted,
                          !.word_iter = order,
                          !.banned_phrase_matches =
                              IF returned THEN @ \o chunk_matches.matches ELSE @,
                          !.pii_patterns = IF returned THEN @ \o chunk_pii ELSE @,
                          !.status = IF returned THEN @ ELSE chunk_matches.outcome,
                          !.remaining = SubSeq(@, n + 1, Len(@)),
                          !.calls = Append(@, chunk),
                          !.ret = [ op |-> "process_chunk",
                                    outcome |-> chunk_matches.outcome ] ]
        /\ UNCHANGED <<this_instance, request, file_stream, stream_io>>

\* StreamingAnalyzer::finalize on the second instance
peer_finalize ==
    /\ peer.status = "running"
    /\ peer' = [ peer EXCEPT !.ret = peer_finalize_of(peer) ]
    /\ UNCHANGED <<this_instance, request, file_stream, stream_io>>

\* a faulty update: the configuration is one object shared by the instances
peer_update_config_shared(cfg) ==
    /\ peer.status = "running"
    /\ peer' = [ peer EXCEPT !.config = cfg,
                             !.ret = [ op |-> "update_config", outcome |-> "Ok" ] ]
    /\ config' = cfg
    /\ UNCHANGED <<word_counts, word_iter, total_chunks, total_content,
                   banned_phrase_matches, pii_patterns, status, remaining, calls,
                   reconfigured, last_finalize, ret,
                   request, file_stream, stream_io>>

\* StreamingAnalyzer::update_config on the second instance
peer_update_config(cfg) ==
    /\ peer.status = "running"
    /\ peer' = [ peer EXCEPT !.config = cfg,
                             !.ret = [ op |-> "update_config", outcome |-> "Ok" ] ]
    /\ UNCHANGED <<this_instance, request, file_stream, stream_io>>

\* two calls of StreamingAnalyzer::new
PairInit ==
    /\ config \in PairConfigs
    /\ word_counts = EmptyMap
    /\ word_iter = <<>>
    /\ total_chunks = 0
    /\ total_content = <<>>
    /\ banned_phrase_matches = <<>>
    /\ pii_patterns = <<>>
    /\ status = "running"
    /\ remaining = PairStream
    /\ calls = <<>>
    /\ reconfigured = FALSE
    /\ ret = NoReturn
    /\ last_finalize = NoReturn
    /\ peer \in { new_peer(cfg, PeerStream) : cfg \in PairConfigs }
    /\ request = Absent
    /\ file_stream = Absent
    /\ stream_io = Absent

PairNext ==
    \/ \E n \in 0..Len(remaining) : process_chunk(n)
    \/ finalize
    \/ \E cfg \in PairConfigs : update_config(cfg)
    \/ \E n \in 0..Len(peer.remaining) : peer_process_chunk(n)
    \/ peer_finalize
    \/ \E cfg \in PairConfigs : peer_update_config(cfg)

PairSpec == PairInit /\ [][PairNext]_vars

---------------------------------------------------------------------------
(* Scoring, reason and ranking.                                            *)

\* a finalize call has just returned a result
FinalizeReturned == ret.op = "finalize" /\ ret.outcome = "Ok"

\* the scorer of the specification on the fields of a result: 0.4 for any
\* phrase match, 0.3 for any PII match, 0.2 times the entropy term
ReferenceRisk(cfg, r) ==
    LET phrase_part == IF Len(r.banned_phrases) >= 1 THEN 400 ELSE 0
        pii_part == IF Len(r.pii_patterns) >= 1 THEN 300 ELSE 0
        above == r.entropy > cfg.entropy_threshold
    IN  IF above THEN Finite(phrase_part + pii_part + 200)
        ELSE IF cfg.entropy_threshold = 0 THEN NaN
        ELSE Finite(phrase_part + pii_part
                      + (((r.entropy * 1000) \div cfg.entropy_threshold) * 200) \div 1000)

\* C11: the risk_score of a finalize result is the reference scorer's value
\* for the accumulated matches and the entropy, and the decision is block
\* exactly when risk_score >= risk_threshold.
C11_ReferenceScorer ==
    FinalizeReturned =>
        /\ ret.result.banned_phrases = banned_phrase_matches
        /\ ret.result.pii_patterns = pii_patterns
        /\ ret.result.entropy = calculate_entropy(total_content)
        /\ ret.result.risk_score = ReferenceRisk(config, ret.result)
        /\ (ret.result.decision = "block") <=>
              (~ret.result.risk_score.nan
                 /\ ret.result.risk_score.milli >= config.risk_threshold)
        /\ ret.result.decision \in {"block", "allow"}

C11_Witness ==
    /\ FinalizeReturned
    /\ ret.result.banned_phrases # <<>>
    /\ ret.result.pii_patterns = <<>>
    /\ ret.result.entropy > config.entropy_threshold
    /\ ret.result.risk_score = Finite(600)
    /\ ret.result.decision = "block"

\* a finalize result of the default configuration whose entropy is not above
\* the threshold
DefaultLowEntropyResult ==
    /\ FinalizeReturned
    /\ config = DefaultConfig
    /\ ret.result.entropy <= DefaultConfig.entropy_threshold

\* the entropy term of the default configuration below the threshold:
\* 0.2 * entropy / 4.8, in thousandths
DefaultEntropyTerm(entropy) == (((entropy * 1000) \div 4800) * 200) \div 1000

\* C12 as stated: with the default configuration a banned phrase alone gives
\* risk_score 0.4 and allow, a banned phrase with PII gives 0.7 and block.
C12_DefaultScores ==
    DefaultLowEntropyResult =>
        /\ (ret.result.banned_phrases # <<>> /\ ret.result.pii_patterns = <<>>) =>
              (ret.result.risk_score = Finite(400) /\ ret.result.decision = "allow")
        /\ (ret.result.banned_phrases # <<>> /\ ret.result.pii_patterns # <<>>) =>
              (ret.result.risk_score = Finite(700) /\ ret.result.decision = "block")

\* C12, amended: with the default configuration and an entropy not above the
\* threshold, a banned phrase alone gives risk_score 0.4 + 0.2 * entropy / 4.8
\* and allow whenever that score is below 0.6; a banned phrase with PII gives
\* 0.7 + 0.2 * entropy / 4.8, at least 0.7, and block.
C12_DefaultScoresWithEntropy ==
    DefaultLowEntropyResult =>
        /\ (ret.result.banned_phrases # <<>> /\ ret.result.pii_patterns = <<>>) =>
              /\ ret.result.risk_score
                   = Finite(400 + DefaultEntropyTerm(ret.result.entropy))
              /\ ret.result.risk_score.milli < 600 => ret.result.decision = "allow"
        /\ (ret.result.banned_phrases # <<>> /\ ret.result.pii_patterns # <<>>) =>
              /\ ret.result.risk_score
                   = Finite(700 + DefaultEntropyTerm(ret.result.entropy))
              /\ ret.result.risk_score.milli >= 700
              /\ ret.result.decision = "block"

C12_Witness ==
    /\ DefaultLowEntropyResult
    /\ ret.result.banned_phrases # <<>>
    /\ ret.result.pii_patterns = <<>>
    /\ ret.result.risk_score.milli > 400
    /\ ret.result.decision = "allow"

\* C13: under every configuration the analyzer accepts, a zero entropy
\* threshold included, the risk_score of a finalize result is a number
\* between 0 and 1.
C13_RiskScoreInUnitInterval ==
    FinalizeReturned =>
        /\ ~ret.result.risk_score.nan
        /\ ret.result.risk_score.milli >= 0
        /\ ret.result.risk_score.milli <= 1000

\* the clauses a reason is made of, in the order of the specification
PhraseClause(n) == <<"Found {} banned phrase(s)", n>>
PiiClause(n) == <<"Detected {} PII pattern(s)", n>>
EntropyClause == <<"High entropy content detected (possible obfuscation)", 0>>
Separator == <<"; ", 0>>

\* the reason the specification gives a result, with this text when no clause
\* applies
ReasonOf(r, none_text) ==
    LET clauses ==
          (IF Len(r.banned_phrases) >= 1
           THEN <<PhraseClause(Len(r.banned_phrases))>> ELSE <<>>)
          \o (IF Len(r.pii_patterns) >= 1
              THEN <<PiiClause(Len(r.pii_patterns))>> ELSE <<>>)
          \o (IF r.is_obfuscated THEN <<EntropyClause>> ELSE <<>>)
    IN  CASE Len(clauses) = 0 -> << <<none_text, 0>> >>
          [] Len(clauses) = 1 -> clauses
          [] Len(clauses) = 2 -> <<clauses[1], Separator, clauses[2]>>
          [] OTHER -> <<clauses[1], Separator, clauses[2], Separator, clauses[3]>>

\* C14 as stated: the reason is the applicable clauses in the fixed order
\* joined by "; ", and "No security concerns detected." when none applies.
C14_ReasonClauses ==
    FinalizeReturned =>
        /\ ret.result.is_obfuscated <=> ret.result.entropy > config.entropy_threshold
        /\ ret.result.reason = ReasonOf(ret.result, "No security concerns detected.")

\* C14, amended: the reason is the applicable clauses in the fixed order
\* joined by "; ", and "No security concerns detected", without a final
\* period, when none applies.
C14_ReasonClausesNoPeriod ==
    FinalizeReturned =>
        /\ ret.result.is_obfuscated <=> ret.result.entropy > config.entropy_threshold
        /\ ret.result.reason = ReasonOf(ret.result, "No security concerns detected")

C14_Witness ==
    /\ FinalizeReturned
    /\ Len(ret.result.banned_phrases) = 1
    /\ Len(ret.result.pii_patterns) = 1
    /\ ret.result.is_obfuscated
    /\ Len(ret.result.reason) = 5

\* the characters in the order of their UTF-8 encodings, the order of String
Utf8Order ==
    <<"0", "1", "2", "3", "4", "5", "6", "7", "8", "9", "S", "T",
      "a", "b", "c", "d", "e", "f", "g", "h", "i", "j", "k", "l", "m", "n", "o",
      "p", "q", "r", "s", "t", "u", "v", "w", "x", "y", "z", "E_ACUTE", "e_acute">>

Rank(c) == CHOOSE i \in 1..Len(Utf8Order) : Utf8Order[i] = c

RECURSIVE LexLess(_, _)
\* a < b for two strings
LexLess(a, b) ==
    IF b = <<>> THEN FALSE
    ELSE IF a = <<>> THEN TRUE
    ELSE IF Head(a) = Head(b) THEN LexLess(Tail(a), Tail(b))
    ELSE Rank(Head(a)) < Rank(Head(b))

\* v is ranked before w: a greater count, or the same count and a smaller token
RankedBefore(counts, v, w) ==
    \/ counts[v] > counts[w]
    \/ counts[v] = counts[w] /\ LexLess(v, w)

RECURSIVE Ranking(_, _)
\* the tokens of S with their counts, by count descending and token ascending
Ranking(counts, S) ==
    IF S = {} THEN <<>>
    ELSE LET first == CHOOSE v \in S : \A w \in S \ {v} : RankedBefore(counts, v, w)
         IN  << <<first, counts[first]>> >> \o Ranking(counts, S \ {first})

\* C15: top_words is the counted tokens that are not stopwords, by count
\* descending and, for equal counts, by token ascending, cut to max_words.
C15_TopWordsOrder ==
    FinalizeReturned =>
        LET ranking == Ranking(word_counts, DOMAIN word_counts \ config.stopwords)
        IN  ret.result.top_words
              = SubSeq(ranking, 1, Least(config.max_words, Len(ranking)))

\* the tokens of every chunk processed so far, in order
SeenTokens == Concat([k \in 1..Len(calls) |-> tokenize_text(calls[k].chunk)])

\* the occurrences of every token seen, stopword or not
SeenCounts == count_words(EmptyMap, {}, SeenTokens)

\* C16: stopwords are filtered when the result is read, against the current
\* configuration: top_words ranks the occurrences of every token seen in the
\* stream that is not a stopword now, whatever it was when its chunk was
\* processed, and holds no token that is a stopword now.
C16_ReadTimeStopwords ==
    FinalizeReturned =>
        LET ranked == DOMAIN SeenCounts \ config.stopwords
            top == ret.result.top_words
        IN  /\ \A i \in 1..Len(top) : top[i][1] \notin config.stopwords
            /\ \A i \in 1..Len(top) :
                  top[i][1] \in ranked /\ top[i][2] = SeenCounts[top[i][1]]
            /\ Len(top) = Least(config.max_words, Cardinality(ranked))

---------------------------------------------------------------------------
(* Reconfiguration.                                                        *)

IsUpdateConfigStep == ret'.op = "update_config" /\ calls' = calls

\* the phrases of a configuration
PhrasesOf(cfg) == { cfg.banned_phrases[i] : i \in 1..Len(cfg.banned_phrases) }

\* C17: update_config returns Ok and changes the configuration only: the
\* counts, the content and the recorded matches stay, finalize still returns
\* the phrase matches recorded before; a process_chunk call scans its chunk
\* with the phrase list in force when it is made.
C17_UpdateConfigOnlyConfig ==
    [][ /\ IsUpdateConfigStep =>
             /\ ret'.outcome = "Ok"
             /\ status' = "running"
             /\ UNCHANGED <<word_counts, word_iter, total_chunks, total_content,
                            banned_phrase_matches, pii_patterns>>
             /\ FinalizeAfterStep.outcome = finalize_result.outcome
             /\ FinalizeAfterStep.outcome = "Ok" =>
                   FinalizeAfterStep.result.banned_phrases = banned_phrase_matches
        /\ (IsProcessChunkStep /\ ret'.outcome = "Ok") =>
             /\ banned_phrase_matches' = banned_phrase_matches
                  \o detect_banned_phrases_in_chunk(config, ChunkOfStep).matches
             /\ config' = config ]_vars

C17_Witness ==
    /\ FinalizeReturned
    /\ reconfigured
    /\ \E i \in 1..Len(ret.result.banned_phrases) :
          ret.result.banned_phrases[i].phrase \notin PhrasesOf(config)
    /\ ret.result.banned_phrases = banned_phrase_matches

---------------------------------------------------------------------------
(* Phrase boundaries and letter case, PII kinds.                           *)

\* the character index of a byte offset of a text
CharIndex(text, b) == CHOOSE i \in 0..Len(text) : byte_offset(text, i) = b

\* the occurrence of a phrase at character index i of a text stands alone: the
\* characters right before and right after it are absent or not alphanumeric
AtWordBoundary(text, i, phrase) ==
    /\ i = 0 \/ ~is_alphanumeric(text[i])
    /\ i + Len(phrase) >= Len(text) \/ ~is_alphanumeric(text[i + Len(phrase) + 1])

\* C18: a phrase occurrence is recorded only when the characters right before
\* and right after it are absent or not alphanumeric: "confidentialword" has
\* no match, "This is confidential." has one match, at position 8.
C18_PhraseWordBoundary ==
    status = "running" =>
        /\ \A k \in 1..Len(calls) : \A j \in 1..Len(calls[k].phrases) :
              LET m == calls[k].phrases[j]
              IN  AtWordBoundary(calls[k].chunk, CharIndex(calls[k].chunk, m.position),
                                 m.phrase)
        /\ (config = DefaultConfig /\ ~reconfigured /\ Len(calls) = 1) =>
              /\ calls[1].chunk = ConfidentialWord => banned_phrase_matches = <<>>
              /\ calls[1].chunk = ThisIsConfidentialDot =>
                    /\ Len(banned_phrase_matches) = 1
                    /\ banned_phrase_matches[1].phrase = Confidential
                    /\ banned_phrase_matches[1].position = 8

\* C19: phrase matching ignores the letter case of the text and of the
\* configured phrase: every occurrence of a configured phrase that stands
\* alone in a chunk, in whatever case either is written, is recorded.
C19_PhraseCaseInsensitive ==
    (status = "running" /\ ~reconfigured) =>
        \A k \in 1..Len(calls) : \A p \in PhrasesOf(config) \ {<<>>} :
            LET chunk == calls[k].chunk
            IN  \A i \in 0..(Len(chunk) - Len(p)) :
                    ( /\ SubSeq(to_lowercase(chunk), i + 1, i + Len(p)) = to_lowercase(p)
                      /\ AtWordBoundary(chunk, i, p) )
                    => \E j \in 1..Len(calls[k].phrases) :
                          /\ calls[k].phrases[j].phrase = p
                          /\ calls[k].phrases[j].position = byte_offset(chunk, i)

\* the confidences detect_pii_patterns gives a match of each kind, in thousandths
KindConfidences ==
    [ phone |-> {900, 800, 600},
      ssn |-> {950},
      credit_card |-> {950, 700, 500},
      ip_address |-> {900},
      email |-> {850} ]

\* C20: every PII match of a finalize result has one of the kinds phone, ssn,
\* credit_card, ip_address, email and the confidence, between 0 and 1, that
\* the rule of its kind assigns; an email address in the stream is returned
\* as a match of kind email with confidence 0.85.
C20_PiiKinds ==
    FinalizeReturned =>
        /\ \A i \in 1..Len(ret.result.pii_patterns) :
              LET m == ret.result.pii_patterns[i]
              IN  /\ m.type_ \in DOMAIN KindConfidences
                  /\ m.confidence \in KindConfidences[m.type_]
                  /\ m.confidence >= 0 /\ m.confidence <= 1000
        /\ Delivered = EmailText =>
              \E i \in 1..Len(ret.result.pii_patterns) :
                  /\ ret.result.pii_patterns[i].type_ = "email"
                  /\ ret.result.pii_patterns[i].confidence = 850

---------------------------------------------------------------------------
(* Retained text and counters.                                             *)

\* the length of the longest pattern of a configuration: its phrases, and the
\* longest digit run of the PII pattern
LongestPattern(cfg) ==
    LET lens == { Len(cfg.banned_phrases[i]) : i \in 1..Len(cfg.banned_phrases) }
                  \cup {PiiMaxDigits}
    IN  CHOOSE n \in lens : \A m \in lens : m <= n

\* C21: the raw text the analyzer keeps between calls is at most the longest
\* pattern length minus one characters long, however much was processed.
C21_BoundedRetainedText ==
    Len(total_content) <= LongestPattern(config) - 1

\* C22: the byte total get_stats reports is the sum of the byte lengths of
\* the chunks passed so far; the total never decreases, and get_stats changes
\* nothing.
C22_ByteTotal ==
    [][ /\ byte_len(total_content') = byte_len(DeliveredAfterStep)
        /\ byte_len(total_content') >= byte_len(total_content)
        /\ ret'.op = "get_stats" =>
              /\ ret'.outcome = "Ok"
              /\ ret'.stats.total_content_length = byte_len(DeliveredAfterStep)
              /\ UNCHANGED <<analyzer, status, remaining, calls>> ]_vars

C22_Witness ==
    /\ ret.op = "get_stats"
    /\ Len(calls) = 2
    /\ calls[2].chunk # <<>>
    /\ ret.stats.total_content_length = byte_len(Delivered)
    /\ ret.stats.total_content_length > Len(Delivered)

---------------------------------------------------------------------------
(* Two instances.                                                          *)

\* C23: a call on one analyzer leaves the other analyzer alone: its fields,
\* its finalize result and the chunks it holds stay what its own calls made
\* them.
C23_InstancesIsolated ==
    [][ /\ peer' # peer =>
              /\ UNCHANGED this_instance
              /\ FinalizeAfterStep = finalize_result
        /\ this_instance' # this_instance =>
              /\ peer' = peer
              /\ peer_finalize_of(peer') = peer_finalize_of(peer)
        /\ total_content' = DeliveredAfterStep
        /\ peer'.total_content = Concat(peer'.calls) ]_vars

C23_Witness ==
    /\ FinalizeReturned
    /\ peer.ret.op = "finalize" /\ peer.ret.outcome = "Ok"
    /\ Len(calls) = 2 /\ Len(peer.calls) = 2
    /\ reconfigured
    /\ peer.config # config
    /\ peer.total_content # total_content
    /\ ret.result # peer.ret.result

---------------------------------------------------------------------------
(* The one-shot analysis functions of src/wasm/src/analysis, as WasmModule *)
(* (src/wasm/src/lib.rs) calls them on the text of request.                *)

MaxTextLen == 3     \* characters of a generated text
MaxPrefixLen == 2    \* characters put before a phrase in a text
MaxSuffixLen == 1    \* characters put after a phrase in a text
MaxTopWords == 3    \* the largest max_words asked for

\* the comparator of analyze_word_frequency: count descending, then word
\* ascending; TRUE when a sorts before b
frequency_before(a, b) == a[2] > b[2] \/ (a[2] = b[2] /\ LexLess(a[1], b[1]))

RECURSIVE sort_by_count_then_word(_)
\* sort_by(|a, b| b.1.cmp(&a.1).then(a.0.cmp(&b.0)))
sort_by_count_then_word(pairs) ==
    IF pairs = <<>> THEN <<>>
    ELSE LET rest == sort_by_count_then_word(Tail(pairs))
             h == Head(pairs)
             k == Cardinality({ i \in 1..Len(rest) : frequency_before(rest[i], h) })
         IN  SubSeq(rest, 1, k) \o <<h>> \o SubSeq(rest, k + 1, Len(rest))

\* a faulty ranking: equal counts are left in the order of the HashMap
analyze_word_frequency_no_tie_break(input, max_words, order) ==
    LET counts == count_words(EmptyMap, {}, tokenize_text(input))
        pairs == [ i \in 1..Len(order) |-> <<order[i], counts[order[i]]>> ]
        sorted_words == sort_by_count(pairs)
    IN  SubSeq(sorted_words, 1, Least(max_words, Len(sorted_words)))

\* frequency::analyze_word_frequency; order is the order in which the HashMap
\* of the counts iterates
analyze_word_frequency(input, max_words, order) ==
    LET counts == count_words(EmptyMap, {}, tokenize_text(input))
        pairs == [ i \in 1..Len(order) |-> <<order[i], counts[order[i]]>> ]
        sorted_words == sort_by_count_then_word(pairs)
    IN  SubSeq(sorted_words, 1, Least(max_words, Len(sorted_words)))

\* the orders in which the HashMap of the words of a text may iterate
WordOrders(input) ==
    IterationOrders(DOMAIN count_words(EmptyMap, {}, tokenize_text(input)))

\* phrases::BANNED_PHRASES
BANNED_PHRASES ==
    << <<"c", "o", "n", "f", "i", "d", "e", "n", "t", "i", "a", "l">>,
       <<"d", "o", " ", "n", "o", "t", " ", "s", "h", "a", "r", "e">> >>

\* chars().nth(k): the k-th character, or none
nth(input, k) == IF k < Len(input) THEN <<input[k + 1]>> ELSE <<>>

\* the is_word_boundary block of detect_banned_phrases for the occurrence at
\* character index i: actual_pos is a byte offset, nth counts characters
is_word_boundary(text_lower, i, phrase) ==
    LET actual_pos == byte_offset(text_lower, i)
        before_char == IF actual_pos > 0 THEN nth(text_lower, actual_pos - 1) ELSE <<>>
        after_char == nth(text_lower, actual_pos + byte_len(phrase))
    IN  /\ before_char = <<>> \/ ~is_alphanumeric(before_char[1])
        /\ after_char = <<>> \/ ~is_alphanumeric(after_char[1])

RECURSIVE scan_phrase_one_shot(_, _, _, _)
\* the while-let loop of detect_banned_phrases for one phrase; start is the
\* character index the search resumes at
scan_phrase_one_shot(input, phrase, start, acc) ==
    LET text_lower == to_lowercase(input)
        phrase_lower == to_lowercase(phrase)
        hits == { i \in start..(Len(text_lower) - Len(phrase_lower)) :
                    SubSeq(text_lower, i + 1, i + Len(phrase_lower)) = phrase_lower }
    IN  IF hits = {} THEN [outcome |-> "Ok", matches |-> acc]
        ELSE
          LET i == Min(hits)
              actual_pos == byte_offset(text_lower, i)
              context_start == Max(actual_pos - ContextWidth, 0)
              context_end == Least(actual_pos + byte_len(phrase) + ContextWidth,
                                   byte_len(input))
          IN  IF ~is_word_boundary(text_lower, i, phrase)
              THEN scan_phrase_one_shot(input, phrase, i + 1, acc)
              ELSE IF \/ ~is_char_boundary(input, context_start)
                      \/ ~is_char_boundary(input, context_end)
                      \/ context_start > context_end
                   THEN [outcome |-> "panic", matches |-> acc]
                   ELSE scan_phrase_one_shot(input, phrase, i + 1,
                          Append(acc, [ phrase |-> phrase,
                                        position |-> actual_pos,
                                        context |-> slice(input, context_start, context_end),
                                        severity |-> "high" ]))

RECURSIVE scan_phrases_one_shot(_, _, _)
\* for phrase in BANNED_PHRASES
scan_phrases_one_shot(input, phrases, acc) ==
    IF phrases = <<>> THEN [outcome |-> "Ok", matches |-> acc]
    ELSE LET r == scan_phrase_one_shot(input, Head(phrases), 0, acc)
         IN  IF r.outcome = "Ok"
             THEN scan_phrases_one_shot(input, Tail(phrases), r.matches)
             ELSE r

\* phrases::detect_banned_phrases
detect_banned_phrases(input) == scan_phrases_one_shot(input, BANNED_PHRASES, <<>>)

\* entropy::calculate_shannon_entropy, in thousandths of a bit
calculate_shannon_entropy(input) ==
    IF input = <<>> THEN 0
    ELSE LET normalized == normalize(input)
             counts == char_counts(normalized)
             text_len == byte_len(normalized)
         IN  IF normalized = <<>> THEN 0
             ELSE entropy_sum(counts, DOMAIN counts, text_len) \div text_len

---------------------------------------------------------------------------
(* The five PII patterns of src/wasm/src/analysis/pii.rs.  A pattern is a  *)
(* sequence of elements: a word boundary, or a character class repeated    *)
(* between min and max times (max 0: no upper limit), greedily.            *)

AsciiLetters == LowerLetters \cup UpperLetters

Boundary == [ kind |-> "boundary" ]
Class(chars, lo, hi) == [ kind |-> "class", chars |-> chars, min |-> lo, max |-> hi ]
Digit(lo, hi) == Class(Digits, lo, hi)

\* \b\d{3}[-.]?\d{3}[-.]?\d{4}\b
PHONE_PATTERN ==
    << Boundary, Digit(3, 3), Class({"-", "."}, 0, 1), Digit(3, 3),
       Class({"-", "."}, 0, 1), Digit(4, 4), Boundary >>

\* \b\d{3}-\d{2}-\d{4}\b
SSN_PATTERN ==
    << Boundary, Digit(3, 3), Class({"-"}, 1, 1), Digit(2, 2),
       Class({"-"}, 1, 1), Digit(4, 4), Boundary >>

\* \b\d{4}[- ]?\d{4}[- ]?\d{4}[- ]?\d{4}\b
CREDIT_CARD_PATTERN ==
    << Boundary, Digit(4, 4), Class({"-", " "}, 0, 1), Digit(4, 4),
       Class({"-", " "}, 0, 1), Digit(4, 4), Class({"-", " "}, 0, 1), Digit(4, 4),
       Boundary >>

\* \b\d{1,3}\.\d{1,3}\.\d{1,3}\.\d{1,3}\b
IP_ADDRESS_PATTERN ==
    << Boundary, Digit(1, 3), Class({"."}, 1, 1), Digit(1, 3), Class({"."}, 1, 1),
       Digit(1, 3), Class({"."}, 1, 1), Digit(1, 3), Boundary >>

\* \b[A-Za-z0-9._%+-]+@[A-Za-z0-9.-]+\.[A-Z|a-z]{2,}\b
EMAIL_PATTERN ==
    << Boundary,
       Class(AsciiLetters \cup Digits \cup {".", "_", "%", "+", "-"}, 1, 0),
       Class({"@"}, 1, 1),
       Class(AsciiLetters \cup Digits \cup {".", "-"}, 1, 0),
       Class({"."}, 1, 1),
       Class(AsciiLetters \cup {"|"}, 2, 0),
       Boundary >>

\* how many characters of the class follow character index i, at most limit
class_run(input, i, chars, limit) ==
    LET ns == { n \in 0..Least(limit, Len(input) - i) :
                  \A k \in (i + 1)..(i + n) : input[k] \in chars }
    IN  CHOOSE n \in ns : \A m \in ns : m <= n

RECURSIVE match_at(_, _, _)
\* the character index at which the match of the elements that starts at
\* character index i ends, or -1: each class takes as much as lets the rest match
match_at(input, i, elems) ==
    IF elems = <<>> THEN i
    ELSE LET e == Head(elems)
         IN  IF e.kind = "boundary"
             THEN IF word_boundary(input, i) THEN match_at(input, i, Tail(elems))
                  ELSE -1
             ELSE LET run == class_run(input, i, e.chars,
                                       IF e.max = 0 THEN Len(input) ELSE e.max)
                      fits == { n \in e.min..run :
                                  match_at(input, i + n, Tail(elems)) # -1 }
                  IN  IF fits = {} THEN -1
                      ELSE match_at(input,
                                    i + (CHOOSE n \in fits : \A m \in fits : m <= n),
                                    Tail(elems))

RECURSIVE regex_find_iter(_, _, _, _)
\* Regex::find_iter: the leftmost matches, not overlapping
regex_find_iter(input, i, elems, acc) ==
    IF i >= Len(input) THEN acc
    ELSE LET end == match_at(input, i, elems)
         IN  IF end <= i THEN regex_find_iter(input, i + 1, elems, acc)
             ELSE regex_find_iter(input, end, elems,
                                  Append(acc, [ start |-> i, end |-> end ]))

DigitChars == <<"0", "1", "2", "3", "4", "5", "6", "7", "8", "9">>

\* char::to_digit(10) of a digit
to_digit(c) == (CHOOSE i \in 1..Len(DigitChars) : DigitChars[i] = c) - 1

\* chars().filter(|c| c.is_digit(10))
digits_of(input) == SelectSeq(input, LAMBDA c : c \in Digits)

\* pii::calculate_phone_confidence, in thousandths
calculate_phone_confidence(phone) ==
    IF Len(digits_of(phone)) = 10
    THEN IF \E k \in 1..Len(phone) : phone[k] \in {"-", "."} THEN 900 ELSE 800
    ELSE 600

RECURSIVE luhn_sum(_, _, _)
\* the loop of luhn_check over digits.chars().rev(): k is the position from
\* the right of the digit looked at
luhn_sum(digits, k, alternate) ==
    IF k > Len(digits) THEN 0
    ELSE LET num == to_digit(digits[Len(digits) - k + 1])
             doubled == IF num * 2 > 9 THEN ((num * 2) % 10) + 1 ELSE num * 2
         IN  (IF alternate THEN doubled ELSE num) + luhn_sum(digits, k + 1, ~alternate)

\* a faulty checksum: the doubling starts at the rightmost digit
luhn_check_from_first(digits) == luhn_sum(digits, 1, TRUE) % 10 = 0

\* pii::luhn_check
luhn_check(digits) == luhn_sum(digits, 1, FALSE) % 10 = 0

\* pii::calculate_credit_card_confidence, in thousandths
calculate_credit_card_confidence(card) ==
    LET digits == digits_of(card)
    IN  IF Len(digits) = 16
        THEN IF luhn_check(digits) THEN 950 ELSE 700
        ELSE 500

RECURSIVE parse_number(_)
\* the value of a string of digits
parse_number(digits) ==
    IF digits = <<>> THEN 0
    ELSE parse_number(SubSeq(digits, 1, Len(digits) - 1)) * 10
           + to_digit(digits[Len(digits)])

RECURSIVE octets_ok(_, _)
\* ip.split('.').all(|octet| octet.parse::<u8>().is_ok()); cur is the octet
\* being collected
octets_ok(ip, cur) ==
    IF ip = <<>> THEN cur # <<>> /\ parse_number(cur) <= 255
    ELSE IF Head(ip) = "."
         THEN cur # <<>> /\ parse_number(cur) <= 255 /\ octets_ok(Tail(ip), <<>>)
         ELSE octets_ok(Tail(ip), Append(cur, Head(ip)))

\* pii::is_valid_ip_address
is_valid_ip_address(ip) == octets_ok(ip, <<>>)

\* the PIIPattern pushed for the match m of a pattern
pii_pattern_of(input, m, kind, confidence) ==
    [ type_ |-> kind,
      pattern |-> SubSeq(input, m.start + 1, m.end),
      position |-> byte_offset(input, m.start),
      confidence |-> confidence ]

\* pii::detect_pii_patterns
detect_pii_patterns(input) ==
    LET found(elems) == regex_find_iter(input, 0, elems, <<>>)
        str(m) == SubSeq(input, m.start + 1, m.end)
        phones == found(PHONE_PATTERN)
        ssns == found(SSN_PATTERN)
        cards == found(CREDIT_CARD_PATTERN)
        ips == SelectSeq(found(IP_ADDRESS_PATTERN),
                         LAMBDA m : is_valid_ip_address(str(m)))
        emails == found(EMAIL_PATTERN)
    IN  [ k \in 1..Len(phones) |->
            pii_pattern_of(input, phones[k], "phone",
                           calculate_phone_confidence(str(phones[k]))) ]
        \o [ k \in 1..Len(ssns) |-> pii_pattern_of(input, ssns[k], "ssn", 950) ]
        \o [ k \in 1..Len(cards) |->
               pii_pattern_of(input, cards[k], "credit_card",
                              calculate_credit_card_confidence(str(cards[k]))) ]
        \o [ k \in 1..Len(ips) |-> pii_pattern_of(input, ips[k], "ip_address", 900) ]
        \o [ k \in 1..Len(emails) |-> pii_pattern_of(input, emails[k], "email", 850) ]

---------------------------------------------------------------------------
(* WasmModule: the one-shot calls on the text of request.                  *)

MaxVariedDigits == 2    \* trailing digits of the card number that are varied

\* the thresholds WasmModule::perform_analysis has in its code
ModuleThresholds == [ entropy_threshold |-> 4800, risk_threshold |-> 600 ]

\* WasmModule::perform_analysis; order is the iteration order of the word counts
perform_analysis(input, order) ==
    LET top == analyze_word_frequency(input, 10, order)
        banned == detect_banned_phrases(input)
        pii == detect_pii_patterns(input)
        entropy == calculate_shannon_entropy(input)
        risk_score == calculate_risk_score(ModuleThresholds, banned.matches, pii, entropy)
    IN  IF banned.outcome # "Ok"
        THEN [ op |-> "analyze_file", outcome |-> banned.outcome ]
        ELSE [ op |-> "analyze_file", outcome |-> "Ok",
               result |->
                 [ top_words |-> top,
                   banned_phrases |-> banned.matches,
                   pii_patterns |-> pii,
                   entropy |-> entropy,
                   is_obfuscated |-> entropy > ModuleThresholds.entropy_threshold,
                   decision |-> IF f64_ge(risk_score, ModuleThresholds.risk_threshold)
                                THEN "block" ELSE "allow",
                   reason |-> generate_reason(ModuleThresholds, banned.matches, pii,
                                              entropy),
                   risk_score |-> risk_score ] ]

\* the strings of at most n characters over an alphabet
Strings(alphabet, n) ==
    UNION { [1..k -> alphabet] : k \in 0..n }

GenTexts == Strings(GenAlphabet, MaxTextLen)

\* "confidential" with a few characters before and after it
AffixTexts ==
    { before \o Confidential \o after :
        before \in Strings({"a", " ", "e_acute"}, MaxPrefixLen),
        after \in Strings({"a", " ", "e_acute"}, MaxSuffixLen) }

HelloWorldText ==
    <<"h", "e", "l", "l", "o", " ", "w", "o", "r", "l", "d", " ",
      "h", "e", "l", "l", "o", " ", "t", "e", "s", "t", " ", "w", "o", "r", "l", "d">>

ZebraText ==
    <<"z", "e", "b", "r", "a", " ", "a", "p", "p", "l", "e", " ",
      "b", "a", "n", "a", "n", "a">>

\* "cafe" with its accent, upper case mixed in
CafeText == <<"T", "e", "s", "t", " ", "c", "a", "f", "e_acute", " ", "E_ACUTE">>

\* 4532015112830366
ValidCard ==
    <<"4", "5", "3", "2", "0", "1", "5", "1", "1", "2", "8", "3", "0", "3", "6", "6">>

\* the card numbers that share the leading digits of the valid one
CardNumbers ==
    { SubSeq(ValidCard, 1, 16 - MaxVariedDigits) \o tail :
        tail \in [1..MaxVariedDigits -> Digits] }

\* a card number written with this separator between its groups of four
card_text(number, sep) ==
    SubSeq(number, 1, 4) \o sep \o SubSeq(number, 5, 8) \o sep
      \o SubSeq(number, 9, 12) \o sep \o SubSeq(number, 13, 16)

CardTexts == { card_text(number, sep) : number \in CardNumbers,
                                        sep \in {<<>>, <<"-">>, <<" ">>} }

OneShotTexts ==
    GenTexts \cup AffixTexts
      \cup { card_text(ValidCard, <<"-">>), HelloWorldText, ZebraText, CafeText, ThisIsConfidentialDot,
             ConfidentialWord, EmailText, NineDigits }

\* WasmModule::new, and the text the host is going to pass
OneShotInit ==
    /\ request \in OneShotTexts
    /\ ret = NoReturn
    /\ config = Absent
    /\ word_counts = Absent
    /\ word_iter = Absent
    /\ total_chunks = Absent
    /\ total_content = Absent
    /\ banned_phrase_matches = Absent
    /\ pii_patterns = Absent
    /\ status = Absent
    /\ remaining = Absent
    /\ calls = Absent
    /\ reconfigured = Absent
    /\ last_finalize = Absent
    /\ peer = Absent
    /\ file_stream = Absent
    /\ stream_io = Absent

\* WasmModule::get_top_words
get_top_words(count) ==
    /\ \E order \in WordOrders(request) :
          ret' = [ op |-> "get_top_words", outcome |-> "Ok", count |-> count,
                   words |-> analyze_word_frequency(request, count, order) ]
    /\ UNCHANGED <<this_instance_fields, peer, request, file_stream, stream_io>>

\* WasmModule::find_banned_phrases
find_banned_phrases ==
    /\ ret' = [ op |-> "find_banned_phrases",
                outcome |-> detect_banned_phrases(request).outcome,
                matches |-> detect_banned_phrases(request).matches ]
    /\ UNCHANGED <<this_instance_fields, peer, request, file_stream, stream_io>>

\* WasmModule::calculate_entropy
module_calculate_entropy ==
    /\ ret' = [ op |-> "calculate_entropy", outcome |-> "Ok",
                entropy |-> calculate_shannon_entropy(request) ]
    /\ UNCHANGED <<this_instance_fields, peer, request, file_stream, stream_io>>

\* WasmModule::detect_pii_patterns
module_detect_pii_patterns ==
    /\ ret' = [ op |-> "detect_pii_patterns", outcome |-> "Ok",
                patterns |-> detect_pii_patterns(request) ]
    /\ UNCHANGED <<this_instance_fields, peer, request, file_stream, stream_io>>

\* WasmModule::analyze_file
analyze_file ==
    /\ \E order \in WordOrders(request) : ret' = perform_analysis(request, order)
    /\ UNCHANGED <<this_instance_fields, peer, request, file_stream, stream_io>>

OneShotNext ==
    \/ \E count \in 0..MaxTopWords : get_top_words(count)
    \/ find_banned_phrases
    \/ module_calculate_entropy
    \/ module_detect_pii_patterns
    \/ analyze_file

OneShotSpec == OneShotInit /\ [][OneShotNext]_vars

\* the host passes card numbers only, and asks for the PII in them
CardInit ==
    /\ request \in CardTexts
    /\ ret = NoReturn
    /\ config = Absent
    /\ word_counts = Absent
    /\ word_iter = Absent
    /\ total_chunks = Absent
    /\ total_content = Absent
    /\ banned_phrase_matches = Absent
    /\ pii_patterns = Absent
    /\ status = Absent
    /\ remaining = Absent
    /\ calls = Absent
    /\ reconfigured = Absent
    /\ last_finalize = Absent
    /\ peer = Absent
    /\ file_stream = Absent
    /\ stream_io = Absent

CardNext == module_detect_pii_patterns

CardSpec == CardInit /\ [][CardNext]_vars

---------------------------------------------------------------------------
(* Claims about the one-shot functions.                                    *)

\* the words of a text, normalized, and how often each occurs
WordsOf(input) == { tokenize_text(input)[i] : i \in 1..Len(tokenize_text(input)) }

OccurrencesOf(input) ==
    [ w \in WordsOf(input) |->
        Cardinality({ i \in 1..Len(tokenize_text(input)) : tokenize_text(input)[i] = w }) ]

HelloWorldTop3 ==
    << << <<"h", "e", "l", "l", "o">>, 2 >>,
       << <<"w", "o", "r", "l", "d">>, 2 >>,
       << <<"t", "e", "s", "t">>, 1 >> >>

ZebraTop ==
    << << <<"a", "p", "p", "l", "e">>, 1 >>,
       << <<"b", "a", "n", "a", "n", "a">>, 1 >>,
       << <<"z", "e", "b", "r", "a">>, 1 >> >>

\* C24: analyze_word_frequency(text, max_words) returns the distinct
\* normalized words of the text with their counts, by count descending and,
\* for equal counts, by word ascending, cut to max_words, whatever order the
\* HashMap iterates in; "hello world hello test world" with 3 gives hello 2,
\* world 2, test 1; "zebra apple banana" gives apple, banana, zebra.
C24_WordFrequencyRanking ==
    (ret # NoReturn /\ ret.op = "get_top_words") =>
        LET ranking == Ranking(OccurrencesOf(request), WordsOf(request))
        IN  /\ ret.words = SubSeq(ranking, 1, Least(ret.count, Len(ranking)))
            /\ (request = HelloWorldText /\ ret.count = 3) => ret.words = HelloWorldTop3
            /\ (request = ZebraText /\ ret.count = 3) => ret.words = ZebraTop

C24_Witness ==
    /\ ret # NoReturn
    /\ ret.op = "get_top_words"
    /\ request = HelloWorldText
    /\ ret.count = 3
    /\ ret.words = HelloWorldTop3

\* the byte offsets at which a phrase occurs in a text and stands alone
StandingAlone(input, phrase) ==
    { byte_offset(input, i) :
        i \in { j \in 0..(Len(input) - Len(phrase)) :
                  /\ SubSeq(to_lowercase(input), j + 1, j + Len(phrase)) = phrase
                  /\ AtWordBoundary(to_lowercase(input), j, phrase) } }

\* the positions a list of matches has for a phrase
PositionsOf(matches, phrase) ==
    { matches[j].position : j \in { k \in 1..Len(matches) : matches[k].phrase = phrase } }

\* C25: detect_banned_phrases reports an occurrence of a banned phrase exactly
\* when the characters right before and right after it are absent or not
\* alphanumeric, also when multi-byte characters come before it, and the
\* position reported is the offset of the occurrence.
C25_OneShotWordBoundary ==
    (ret # NoReturn /\ ret.op = "find_banned_phrases") =>
        /\ ret.outcome = "Ok"
        /\ \A k \in 1..Len(BANNED_PHRASES) :
              PositionsOf(ret.matches, BANNED_PHRASES[k])
                = StandingAlone(request, BANNED_PHRASES[k])

\* the entropy of a text whose probabilities are counts over the number of
\* normalized characters, in thousandths of a bit
EntropyOverCharacters(input) ==
    LET normalized == normalize(input)
        counts == char_counts(normalized)
    IN  IF normalized = <<>> THEN 0
        ELSE entropy_sum(counts, DOMAIN counts, Len(normalized)) \div Len(normalized)

\* C26: the entropy is computed with probabilities that sum to 1: each count
\* is divided by the number of normalized characters counted, non-ASCII
\* alphanumerics included; a text without normalized characters has 0.
C26_EntropyDivisor ==
    (ret # NoReturn /\ ret.op = "calculate_entropy") =>
        ret.entropy = EntropyOverCharacters(request)


\* the Luhn sum of a number: every second digit counted from the right,
\* the rightmost one not, is doubled, and 9 taken off a double above 9
RECURSIVE StandardLuhnSum(_)
StandardLuhnSum(number) ==
    IF number = <<>> THEN 0
    ELSE LET d == to_digit(Head(number))
             weighted == IF Len(number) % 2 = 0
                         THEN (IF 2 * d > 9 THEN 2 * d - 9 ELSE 2 * d)
                         ELSE d
         IN  weighted + StandardLuhnSum(Tail(number))

\* the credit card matches among the patterns returned
CardMatches(patterns) ==
    { j \in 1..Len(patterns) : patterns[j].type_ = "credit_card" }

\* C27: for every 16-digit card number, however its groups are separated, the
\* confidence of the credit card match is 0.95 exactly when the Luhn sum of
\* the number is divisible by 10, and 0.7 otherwise; 4532015112830366 passes.
C27_LuhnConfidence ==
    (ret # NoReturn /\ ret.op = "detect_pii_patterns" /\ request \in CardTexts) =>
        /\ CardMatches(ret.patterns) # {}
        /\ \A j \in CardMatches(ret.patterns) :
              /\ ret.patterns[j].pattern = request
              /\ ret.patterns[j].confidence
                   = IF StandardLuhnSum(digits_of(request)) % 10 = 0 THEN 950 ELSE 700
              /\ digits_of(request) = ValidCard => ret.patterns[j].confidence = 950

C27_Witness ==
    /\ ret # NoReturn
    /\ ret.op = "detect_pii_patterns"
    /\ request = card_text(ValidCard, <<" ">>)
    /\ \E j \in CardMatches(ret.patterns) : ret.patterns[j].confidence = 950


\* C28: the one-shot analysis and the streaming analysis of the same content,
\* passed as a single chunk under the default configuration and finalized,
\* give the same banned phrase matches, the same PII matches and the same
\* decision.
C28_OneShotAgreesWithStreaming ==
    (FinalizeReturned /\ config = DefaultConfig /\ ~reconfigured /\ Len(calls) = 1) =>
        \A order \in WordOrders(Delivered) :
            LET one_shot == perform_analysis(Delivered, order)
            IN  /\ one_shot.outcome = "Ok"
                /\ one_shot.result.banned_phrases = ret.result.banned_phrases
                /\ one_shot.result.pii_patterns = ret.result.pii_patterns
                /\ one_shot.result.decision = ret.result.decision

---------------------------------------------------------------------------
(* FileStream (src/wasm/src/utils/stream.rs): file_stream is the object,   *)
(* stream_io what its host has passed to it and got back from it.          *)

MaxChunkSize == 2       \* the largest chunk_size a FileStream is made with
MaxDataLen == 3         \* bytes passed in one call
MaxStreamBytes == 5     \* bytes passed to one FileStream in all

Bytes == {0, 1}

\* FileStream::new
new_file_stream(chunk_size) ==
    [ chunk_size |-> chunk_size, buffer |-> <<>>, position |-> 0 ]

FileStreamInit ==
    /\ \E chunk_size \in 0..MaxChunkSize : file_stream = new_file_stream(chunk_size)
    /\ stream_io = [ data |-> <<>>, chunks |-> <<>> ]
    /\ ret = NoReturn
    /\ request = Absent
    /\ config = Absent
    /\ word_counts = Absent
    /\ word_iter = Absent
    /\ total_chunks = Absent
    /\ total_content = Absent
    /\ banned_phrase_matches = Absent
    /\ pii_patterns = Absent
    /\ status = Absent
    /\ remaining = Absent
    /\ calls = Absent
    /\ reconfigured = Absent
    /\ last_finalize = Absent
    /\ peer = Absent

\* a faulty process_chunk: the chunk returned is left in the buffer
file_stream_process_chunk_no_drain(data) ==
    LET extended == file_stream.buffer \o data
        full == Len(extended) >= file_stream.chunk_size
        chunk == IF full THEN SubSeq(extended, 1, file_stream.chunk_size) ELSE <<>>
    IN  /\ file_stream' = [file_stream EXCEPT !.buffer = extended]
        /\ stream_io' = [ data |-> stream_io.data \o data,
                          chunks |-> Append(stream_io.chunks, chunk) ]
        /\ ret' = [ op |-> "process_chunk", outcome |-> "Ok", chunk |-> chunk ]
        /\ UNCHANGED <<this_instance_fields, peer, request>>

\* FileStream::process_chunk
file_stream_process_chunk(data) ==
    LET extended == file_stream.buffer \o data
        full == Len(extended) >= file_stream.chunk_size
        chunk == IF full THEN SubSeq(extended, 1, file_stream.chunk_size) ELSE <<>>
    IN  /\ file_stream' =
              [file_stream EXCEPT
                 !.buffer = IF full
                            THEN SubSeq(extended, file_stream.chunk_size + 1, Len(extended))
                            ELSE extended]
        /\ stream_io' = [ data |-> stream_io.data \o data,
                          chunks |-> Append(stream_io.chunks, chunk) ]
        /\ ret' = [ op |-> "process_chunk", outcome |-> "Ok", chunk |-> chunk ]
        /\ UNCHANGED <<this_instance_fields, peer, request>>

FileStreamNext ==
    \E data \in Strings(Bytes, MaxDataLen) :
        /\ Len(stream_io.data) + Len(data) <= MaxStreamBytes
        /\ Len(stream_io.chunks) < MaxStreamBytes
        /\ file_stream_process_chunk(data)

FileStreamSpec == FileStreamInit /\ [][FileStreamNext]_vars

\* C29: a FileStream neither loses, duplicates nor reorders bytes: the chunks
\* returned so far, in order, followed by what is left in the buffer, are the
\* data passed in so far, in order; every chunk returned is empty or has
\* exactly chunk_size bytes.
C29_FileStreamKeepsBytes ==
    /\ Concat(stream_io.chunks) \o file_stream.buffer = stream_io.data
    /\ \A k \in 1..Len(stream_io.chunks) :
          Len(stream_io.chunks[k]) \in {0, file_stream.chunk_size}

C29_Witness ==
    /\ file_stream.chunk_size = 2
    /\ Len(stream_io.chunks) = 3
    /\ stream_io.chunks[1] = <<>>
    /\ stream_io.chunks[2] = <<0, 1>>
    /\ stream_io.chunks[3] = <<1, 0>>
    /\ file_stream.buffer = <<1>>

\* C30: after every process_chunk of a FileStream with a chunk_size above 0
\* the buffer holds fewer than chunk_size bytes, whatever the sizes of the
\* data passed, data of twice the chunk_size or more included.
C30_BufferBelowChunkSize ==
    (file_stream.chunk_size > 0 /\ ret # NoReturn) =>
        Len(file_stream.buffer) < file_stream.chunk_size

===========================================================================
